---- MODULE Spec2Model ----
(***************************************************************************)
(* CoAP-to-MQTT bridge of iot-openthread (coap_server/coap_server.py).     *)
(*                                                                         *)
(* Strings are sequences of one-character strings, so that lower(),        *)
(* replace(" ", ""), removeprefix('/') and f-string concatenation are      *)
(* computed character by character.  JSON values are tagged records;       *)
(* a JSON object is an ordered sequence of (key, value) fields, as a       *)
(* Python dict keeps insertion order.                                      *)
(***************************************************************************)
EXTENDS Integers, Sequences, FiniteSets, TLC

VARIABLES
    locations,   \* module global `locations` (MAC -> label)
    connected,   \* whether the module global paho `client` has a broker session
    request,     \* the request most recently passed to MQTT_Bridge.render
    topic_base,  \* render's local `topic` after line 133
    calls,       \* client.publish calls made while handling `request`
    response,    \* what render gave its caller for `request`
    \* archived variant (coap_server/archive/new/src)
    srv_pc,          \* where CoAPServer.start stands
    srv_log,         \* the calls start has made on the MQTT client and on aiocoap, in order
    a_assembly,      \* what MQTTBridgeResource was constructed with
    a_connected,     \* whether MQTTHandler.client has a broker session
    a_request,       \* the request most recently passed to MQTTBridgeResource.render
    a_handler_calls, \* mqtt_handler.publish calls made while handling a_request
    a_client_calls,  \* MQTTHandler.client.publish calls made by the last operation
    a_response,      \* what MQTTBridgeResource.render gave its caller
    h_result,        \* what the last awaited MQTTHandler.publish gave its caller
    \* BlockResource of coap_server.py
    content,         \* BlockResource.content
    block_put,       \* the payload of the last PUT, if there was one
    block_response,  \* what render_get or render_put gave its caller last
    \* identifier normalization applied to given identifiers
    ids,             \* two identifier strings
    norm,            \* what normalization, lookup and the bridge made of them
    \* a run of the bridge over several requests
    session,         \* what each request yields in a fresh process, and whether
                     \* a request was handled before the one in hand
    \* two requests to the archived MQTTBridgeResource, side by side
    twin,            \* the two requests and the response given to each
    \* publish_mqtt_message of coap_server/mqtt_client.py
    p_pc,            \* where publish_mqtt_message stands
    msg_count,       \* its local msg_count
    p_node,          \* how many entries of `examples` the for loop has taken this round
    p_connected,     \* whether the module global `client` has a broker session
    p_status,        \* its local status (res[0] of the last publish)
    p_exiting,       \* the "Client not connected, exiting..." branch has been taken
    p_late,          \* a publish was attempted after that branch was taken
    p_disconnects,   \* calls of client.disconnect()
    p_loop_stops,    \* calls of client.loop_stop()
    \* TimeResource of coap_server.py
    handle,          \* TimeResource.handle: None or a timer of the event loop
    pending,         \* timers of call_later(5, self.notify) neither fired nor cancelled
    observers,       \* the count last given to update_observation_count
    notified,        \* calls of updated_state()
    t_last           \* the last operation on the TimeResource

bridgeVars == <<locations, connected, request, topic_base, calls, response>>
archiveVars == <<srv_pc, srv_log, a_assembly, a_connected, a_request, a_handler_calls,
                 a_client_calls, a_response, h_result>>
blockVars == <<content, block_put, block_response>>
normVars == <<ids, norm>>
sessionVars == <<session>>
twinVars == <<twin>>
publisherVars == <<p_pc, msg_count, p_node, p_connected, p_status, p_exiting, p_late,
                   p_disconnects, p_loop_stops>>
timeVars == <<handle, pending, observers, notified, t_last>>
vars == <<bridgeVars, archiveVars, blockVars, normVars, sessionVars, twinVars,
          publisherVars, timeVars>>

----------------------------------------------------------------------------
(* String constants of the program *)

DEFAULT_TOPIC == <<"s", "e", "n", "s", "o", "r", "/", "d", "e", "f", "a", "u", "l", "t">>

Mac_raum_1_08 == <<"3", "a", ":", "4", "f", ":", "e", "c", ":", "8", "5", ":", "c", "0", ":", "6", "5", ":", "3", "6", ":", "1", "9">>
Mac_roboterlabor == <<"8", "e", ":", "d", "0", ":", "8", "2", ":", "0", "b", ":", "a", "8", ":", "e", "5", ":", "c", "8", ":", "9", "3">>
Mac_besprechungsraum == <<"5", "2", ":", "9", "d", ":", "c", "d", ":", "3", "b", ":", "8", "a", ":", "7", "3", ":", "d", "d", ":", "5", "8">>
Mac_uic == <<"9", "a", ":", "d", "6", ":", "1", "8", ":", "d", "1", ":", "e", "5", ":", "e", "5", ":", "7", "d", ":", "4", "b">>
Mac_erste_etage_flur == <<"b", "e", ":", "7", "3", ":", "0", "9", ":", "1", "2", ":", "a", "3", ":", "3", "1", ":", "2", "e", ":", "5", "2">>

Label_raum_1_08 == <<"r", "a", "u", "m", "_", "1", "_", "0", "8">>
Label_roboterlabor == <<"r", "o", "b", "o", "t", "e", "r", "l", "a", "b", "o", "r">>
Label_besprechungsraum == <<"b", "e", "s", "p", "r", "e", "c", "h", "u", "n", "g", "s", "r", "a", "u", "m">>
Label_uic == <<"u", "i", "c">>
Label_erste_etage_flur == <<"e", "r", "s", "t", "e", "_", "e", "t", "a", "g", "e", "_", "f", "l", "u", "r">>

\* the dict literal `locations`
LocationsTable ==
    [m \in {Mac_raum_1_08, Mac_roboterlabor, Mac_besprechungsraum, Mac_uic, Mac_erste_etage_flur} |->
        CASE m = Mac_raum_1_08 -> Label_raum_1_08
          [] m = Mac_roboterlabor -> Label_roboterlabor
          [] m = Mac_besprechungsraum -> Label_besprechungsraum
          [] m = Mac_uic -> Label_uic
          [] OTHER -> Label_erste_etage_flur]

----------------------------------------------------------------------------
(* Python string primitives *)

UpperCase == <<"A", "B", "C", "D", "E", "F", "G", "H", "I", "J", "K", "L", "M", "N", "O", "P", "Q", "R", "S", "T", "U", "V", "W", "X", "Y", "Z">>
LowerCase == <<"a", "b", "c", "d", "e", "f", "g", "h", "i", "j", "k", "l", "m", "n", "o", "p", "q", "r", "s", "t", "u", "v", "w", "x", "y", "z">>

\* str.lower() on one character
LowerChar(c) ==
    IF \E i \in 1..Len(UpperCase) : UpperCase[i] = c
    THEN LowerCase[CHOOSE i \in 1..Len(UpperCase) : UpperCase[i] = c]
    ELSE c

\* str.lower()
Lower(s) == [i \in 1..Len(s) |-> LowerChar(s[i])]

\* a str.replace that removes the first space only
remove_first_space_only(s) ==
    IF \E i \in 1..Len(s) : s[i] = " "
    THEN LET k == CHOOSE i \in 1..Len(s) : s[i] = " " /\ \A j \in 1..(i - 1) : s[j] # " "
         IN  SubSeq(s, 1, k - 1) \o SubSeq(s, k + 1, Len(s))
    ELSE s

\* str.replace(" ", ""): only U+0020 is removed
RemoveSpaces(s) == SelectSeq(s, LAMBDA c : c # " ")

\* a normalization that leaves the letters as they are
normalize_without_lower(s) == RemoveSpaces(s)

\* the expression  x.lower().replace(" ", "")
Normalize(s) == RemoveSpaces(Lower(s))

\* str.removeprefix('/'): at most one leading slash is removed
RemovePrefixSlash(s) ==
    IF Len(s) > 0 /\ s[1] = "/" THEN SubSeq(s, 2, Len(s)) ELSE s

----------------------------------------------------------------------------
(* JSON values as json.loads builds them *)

Str(s) == [t |-> "str", s |-> s, n |-> 0, items |-> <<>>]
Num(n) == [t |-> "num", s |-> <<>>, n |-> n, items |-> <<>>]
List(items) == [t |-> "list", s |-> <<>>, n |-> 0, items |-> items]

\* a dict (t = "obj") with its fields in insertion order, or a non-dict value
Obj(fields) == [t |-> "obj", fields |-> fields]
NonObj(t) == [t |-> t, fields |-> <<>>]
Field(k, v) == [k |-> k, v |-> v]

\* k in d
HasKey(d, k) == \E i \in 1..Len(d.fields) : d.fields[i].k = k

\* d[k], for a key that is present
GetItem(d, k) == d.fields[CHOOSE i \in 1..Len(d.fields) : d.fields[i].k = k].v

\* a d[k] = v that puts the key last, whether or not it was there
set_item_moving_key_last(d, k, v) ==
    [d EXCEPT !.fields = Append(SelectSeq(d.fields, LAMBDA f : f.k # k), Field(k, v))]

\* d[k] = v: an existing key keeps its position, a new key goes last
SetItem(d, k, v) ==
    IF HasKey(d, k)
    THEN [d EXCEPT !.fields = [i \in 1..Len(d.fields) |->
                                 IF d.fields[i].k = k THEN Field(k, v) ELSE d.fields[i]]]
    ELSE [d EXCEPT !.fields = Append(d.fields, Field(k, v))]

\* the result of an expression that may raise: exc = "" when it did not
Ok(v) == [exc |-> "", val |-> v]
Raise(e) == [exc |-> e, val |-> <<>>]

\* bytes.decode('utf-8')
decode(body) ==
    IF body.kind = "bytes" THEN Raise("UnicodeDecodeError") ELSE Ok(body)

\* json.loads(text)
json_loads(text) ==
    IF text.kind = "json" THEN Ok(text.doc) ELSE Raise("JSONDecodeError")

\* json.dumps(data): the JSON text of the document
json_dumps(data) == [kind |-> "json", doc |-> data]

\* digits of a natural number, as str(int) prints them
RECURSIVE Digits(_)
Digits(n) ==
    LET d == <<"0", "1", "2", "3", "4", "5", "6", "7", "8", "9">>
    IN  IF n < 10 THEN <<d[n + 1]>> ELSE Digits(n \div 10) \o <<d[(n % 10) + 1]>>

\* how an f-string renders a value
Format(v) ==
    CASE v.t = "str" -> v.s
      [] v.t = "num" -> IF v.n < 0 THEN <<"-">> \o Digits(-v.n) ELSE Digits(v.n)
      [] OTHER -> <<"N", "o", "n", "e">>

----------------------------------------------------------------------------
(* MQTT_Bridge *)

\* aiocoap Code.CONTENT (2.05), Code.BAD_REQUEST (4.00), Code.INTERNAL_SERVER_ERROR (5.00)
CONTENT == 69
BAD_REQUEST == 128
INTERNAL_SERVER_ERROR == 160
\* paho result codes: the rc render compares with 0, and the rc of a publish without
\* a broker session
MQTT_ERR_SUCCESS == 0
MQTT_ERR_NO_CONN == 4

\* the class c of a CoAP code c.dd
CodeClass(code) == code \div 32

Message(code, payload) == [kind |-> "message", code |-> code, payload |-> payload, exc |-> ""]
Propagated(e) == [kind |-> "exception", code |-> 0, payload |-> "", exc |-> e]

\* _extract_topic with "$" missing from the list of degenerate paths
extract_topic_without_dollar(req) ==
    IF ~req.uri_ok
    THEN DEFAULT_TOPIC
    ELSE LET topic == RemovePrefixSlash(req.path)
         IN  IF topic # <<>> /\ topic \notin {<<"/">>, <<"(", ")">>, <<"#">>}
             THEN topic
             ELSE DEFAULT_TOPIC

\* _extract_topic
_extract_topic(req) ==
    IF ~req.uri_ok
    THEN DEFAULT_TOPIC
    ELSE LET topic == RemovePrefixSlash(req.path)
         IN  IF topic # <<>> /\ topic \notin {<<"/">>, <<"(", ")">>, <<"#">>, <<"$">>}
             THEN topic
             ELSE DEFAULT_TOPIC

\* an identifier expression that formats a first value that is no string
mac_address_of_any_value(data) ==
    IF data.t # "obj" THEN Raise("AttributeError")
    ELSE IF Len(data.fields) = 0 THEN Raise("IndexError")
    ELSE Ok(Normalize(Format(data.fields[1].v)))

\* list(data.values())[0].lower().replace(" ", "")
mac_address(data) ==
    IF data.t # "obj" THEN Raise("AttributeError")
    ELSE IF Len(data.fields) = 0 THEN Raise("IndexError")
    ELSE IF data.fields[1].v.t # "str" THEN Raise("AttributeError")
    ELSE Ok(Normalize(data.fields[1].v.s))

\* the body of the neighbor loop, for one element of data["neighbor_rssi"]
EnrichNeighbor(neighbor) ==
    IF neighbor.t # "obj" THEN Raise("TypeError")
    ELSE IF ~HasKey(neighbor, "MAC") THEN Raise("KeyError")
    ELSE LET mac == GetItem(neighbor, "MAC")
         IN  IF mac.t = "str" /\ mac.s \in DOMAIN locations
             THEN Ok(SetItem(neighbor, "neighbor_location", Str(locations[mac.s])))
             ELSE Ok(neighbor)

\* for neighbor in data["neighbor_rssi"]: ...
EnrichNeighbors(data) ==
    IF ~HasKey(data, "neighbor_rssi") THEN Raise("KeyError")
    ELSE LET v == GetItem(data, "neighbor_rssi")
         IN  CASE v.t = "list" ->
                    IF \E i \in 1..Len(v.items) : EnrichNeighbor(v.items[i]).exc # ""
                    THEN Raise(EnrichNeighbor(v.items[
                            CHOOSE i \in 1..Len(v.items) :
                                /\ EnrichNeighbor(v.items[i]).exc # ""
                                /\ \A j \in 1..(i - 1) : EnrichNeighbor(v.items[j]).exc = ""]).exc)
                    ELSE Ok(SetItem(data, "neighbor_rssi",
                                    List([i \in 1..Len(v.items) |-> EnrichNeighbor(v.items[i]).val])))
               [] v.t = "str" -> IF v.s = <<>> THEN Ok(data) ELSE Raise("TypeError")
               [] OTHER -> Raise("TypeError")

\* enrichment that looks at the neighbors only when the reporting device resolves
enrich_neighbors_of_known_devices_only(data) ==
    LET mac == mac_address(data)
    IN  IF mac.exc # "" THEN mac
        ELSE IF mac.val \in DOMAIN locations
             THEN EnrichNeighbors(SetItem(data, "location", Str(locations[mac.val])))
             ELSE IF HasKey(data, "neighbor_rssi") THEN Ok(data) ELSE Raise("KeyError")

\* _enrich_data_with_locations
_enrich_data_with_locations(data) ==
    LET mac == mac_address(data)
    IN  IF mac.exc # "" THEN mac
        ELSE EnrichNeighbors(IF mac.val \in DOMAIN locations
                             THEN SetItem(data, "location", Str(locations[mac.val]))
                             ELSE data)

\* _build_mqtt_topic
_build_mqtt_topic(base_topic, data) ==
    LET mac == mac_address(data)
    IN  IF mac.exc # "" THEN mac
        ELSE LET location_or_mac == IF HasKey(data, "location")
                                    THEN GetItem(data, "location")
                                    ELSE Str(mac.val)
             IN  Ok(base_topic \o <<"/">> \o Format(location_or_mac))

\* paho client.publish(topic=..., payload=...): the (rc, mid) it returns, or ValueError
\* for a topic holding a wildcard
client_publish(topic, payload) ==
    IF \E i \in 1..Len(topic) : topic[i] \in {"+", "#"}
    THEN Raise("ValueError")
    ELSE Ok(IF connected THEN MQTT_ERR_SUCCESS ELSE MQTT_ERR_NO_CONN)

\* _publish_to_mqtt: the publish call it makes, and the exception it lets through
_publish_to_mqtt(topic, data) ==
    LET payload == json_dumps(data)
        result == client_publish(topic, payload)
    IN  [exc |-> result.exc,
         call |-> [topic |-> topic, payload |-> payload,
                   raised |-> result.exc # "",
                   rc |-> IF result.exc = "" THEN result.val ELSE MQTT_ERR_SUCCESS]]

\* except clauses that answer every failure alike
error_response_always_internal(exc) ==
    Message(INTERNAL_SERVER_ERROR, "")

\* the except clauses of render
ErrorResponse(exc) ==
    IF exc = "JSONDecodeError"
    THEN Message(BAD_REQUEST, "")
    ELSE Message(INTERNAL_SERVER_ERROR, "")

\* the try block of render: the publish calls made and the response returned
TryBlock(topic, payload) ==
    LET parsed_data == json_loads(payload)
    IN  IF parsed_data.exc # "" THEN [calls |-> <<>>, response |-> ErrorResponse(parsed_data.exc)]
        ELSE
        LET enriched_data == _enrich_data_with_locations(parsed_data.val)
        IN  IF enriched_data.exc # "" THEN [calls |-> <<>>, response |-> ErrorResponse(enriched_data.exc)]
            ELSE
            LET full == _build_mqtt_topic(topic, enriched_data.val)
            IN  IF full.exc # "" THEN [calls |-> <<>>, response |-> ErrorResponse(full.exc)]
                ELSE
                LET pub == _publish_to_mqtt(full.val, enriched_data.val)
                IN  IF pub.exc # ""
                    THEN [calls |-> <<pub.call>>, response |-> ErrorResponse(pub.exc)]
                    ELSE [calls |-> <<pub.call>>,
                          response |-> Message(CONTENT, "Successfully published")]

\* render.  Lines 136-138 only log: for a request delivered by an aiocoap transport
\* request.remote.hostinfo and request.get_request_uri() are defined, and uri_ok is
\* FALSE when urlparse rejects the URI (a Uri-Host such as "[x").  The decode of
\* line 134 is before the try block, so what it raises leaves render.
render(req) ==
    LET topic == _extract_topic(req)
        payload == decode(req.body)
    IN  IF payload.exc # ""
        THEN [topic |-> topic, calls |-> <<>>, response |-> Propagated(payload.exc)]
        ELSE LET r == TryBlock(topic, payload.val)
             IN  [topic |-> topic, calls |-> r.calls, response |-> r.response]

----------------------------------------------------------------------------
(* The requests the bridge is handed *)

\* longest neighbor_rssi list in a request
MaxNeighbors == 2

Mac_raum_1_08_raw == <<"3", "A", ":", "4", "F", ":", "E", "C", ":", "8", "5", ":", " ", "C", "0", ":", "6", "5", ":", "3", "6", ":", "1", "9">>
Mac_roboterlabor_raw == <<"8", "E", ":", "D", "0", ":", "8", "2", ":", "0", "B", ":", "A", "8", ":", "E", "5", ":", "C", "8", ":", "9", "3">>
Mac_unknown == <<"u", "n", "k", "n", "o", "w", "n", ":", "m", "a", "c">>
Mac_unknown_raw == <<"U", "n", "k", "n", "o", "w", "n", ":", " ", "M", "A", "C">>
Label_kitchen == <<"k", "i", "t", "c", "h", "e", "n">>

\* identifiers a device reports for itself
DeviceIds == {Mac_raum_1_08, Mac_raum_1_08_raw, Mac_unknown, Mac_unknown_raw}

\* elements of a neighbor_rssi list: well-formed entries (known MAC, known MAC in
\* another spelling, unknown MAC, an entry that already carries a neighbor_location),
\* an entry without MAC, and an element that is no object
Neighbors ==
    {Obj(<<Field("MAC", Str(m)), Field("RSSI", Num(-70))>>) :
        m \in {Mac_roboterlabor, Mac_roboterlabor_raw, Mac_unknown}}
    \cup {Obj(<<Field("MAC", Str(Mac_uic)), Field("neighbor_location", Str(Label_kitchen))>>),
          Obj(<<Field("RSSI", Num(-70))>>),
          NonObj("num")}

\* all sequences over S of length at most n
RECURSIVE SeqsUpTo(_, _)
SeqsUpTo(S, n) ==
    IF n = 0 THEN {<<>>}
    ELSE LET shorter == SeqsUpTo(S, n - 1)
         IN  shorter \cup {Append(q, x) : q \in {r \in shorter : Len(r) = n - 1}, x \in S}

\* the first field of a request object
FirstFields ==
    {Field("device", Str(id)) : id \in DeviceIds}
    \cup {Field("device", Num(7)), Field("location", Str(Mac_unknown_raw))}

\* what may follow the first field: other sensor fields, a location field of the
\* sender's own, and neighbor_rssi (a list, or a value that is no list)
OtherFields == {<<>>, <<Field("temperature", Num(25))>>}
OwnLocation == {<<>>, <<Field("location", Str(Label_kitchen))>>}
NeighborRssi ==
    {<<>>, <<Field("neighbor_rssi", Num(0))>>, <<Field("neighbor_rssi", Str(<<>>))>>}
    \cup {<<Field("neighbor_rssi", List(q))>> : q \in SeqsUpTo(Neighbors, MaxNeighbors)}

\* documents json.loads can return: dicts with distinct keys, and values that are no dict
Documents ==
    {NonObj("num"), NonObj("list"), Obj(<<>>)}
    \cup UNION {{Obj(<<f>> \o o \o l \o n) :
                    o \in OtherFields,
                    l \in {x \in OwnLocation : x = <<>> \/ f.k # "location"},
                    n \in NeighborRssi} : f \in FirstFields}

\* request bodies: bytes that are no UTF-8, text that is no JSON, JSON text
Bodies ==
    {[kind |-> "bytes", doc |-> NonObj("null")], [kind |-> "text", doc |-> NonObj("null")]}
    \cup {[kind |-> "json", doc |-> d] : d \in Documents}

\* urlparse(request.get_request_uri()).path
Paths ==
    {<<>>, <<"/">>, <<"/", "/">>, <<"/", "(", ")">>, <<"/", "#">>, <<"/", "$">>,
     <<"/", "s", "e", "n", "s", "o", "r">>, <<"/", "+">>, <<"/", "/", "a">>}

\* requests: uri_ok is FALSE when urlparse raises on the request URI
Requests ==
    {[uri_ok |-> TRUE, path |-> p, body |-> b] : p \in Paths, b \in Bodies}
    \cup {[uri_ok |-> FALSE, path |-> <<>>, body |-> b] : b \in Bodies}

NoRequest == [present |-> FALSE, uri_ok |-> TRUE, path |-> <<>>,
              body |-> [kind |-> "text", doc |-> NonObj("null")], connected |-> TRUE]
NoResponse == [kind |-> "none", code |-> 0, payload |-> "", exc |-> ""]

----------------------------------------------------------------------------
(* The state machine *)

\* the bridge of coap_server.py, started and idle
BridgeIdle ==
    /\ locations = LocationsTable
    /\ connected = TRUE
    /\ request = NoRequest
    /\ topic_base = <<>>
    /\ calls = <<>>
    /\ response = NoResponse

\* the archived variant, not constructed
NoResult == [awaited |-> FALSE, raised |-> FALSE, value |-> FALSE, topic |-> <<>>,
             payload |-> [kind |-> "text", doc |-> NonObj("null")]]
ArchiveAbsent ==
    /\ srv_pc = "absent"
    /\ srv_log = <<>>
    /\ a_assembly = "none"
    /\ a_connected = FALSE
    /\ a_request = NoRequest
    /\ a_handler_calls = <<>>
    /\ a_client_calls = <<>>
    /\ a_response = NoResponse
    /\ h_result = NoResult

\* no BlockResource request yet seen by the model
NoBlockPut == [done |-> FALSE, payload |-> <<>>]
NoBlockResponse == [op |-> "none", code |-> "unset", payload |-> <<>>]
BlockAbsent ==
    /\ content = <<>>
    /\ block_put = NoBlockPut
    /\ block_response = NoBlockResponse

\* no identifiers under study
NoNorm == [stage |-> "input", x |-> <<>>, xx |-> <<>>, y |-> <<>>,
           found |-> [present |-> FALSE, label |-> <<>>],
           pub_x |-> [published |-> FALSE, topic |-> <<>>, located |-> FALSE, location |-> <<>>],
           pub_y |-> [published |-> FALSE, topic |-> <<>>, located |-> FALSE, location |-> <<>>]]
NormAbsent ==
    /\ ids = <<<<>>, <<>>>>
    /\ norm = NoNorm

\* no run over several requests under study
SessionAbsent == session = [outcome |-> TRUE, alone |-> <<>>, earlier |-> FALSE]

\* no pair of archived requests under study
NoTwin == [done |-> FALSE, first |-> NoRequest, second |-> NoRequest,
           first_response |-> NoResponse, second_response |-> NoResponse]
TwinAbsent == twin = NoTwin

\* publish_mqtt_message not called
PublisherAbsent ==
    /\ p_pc = "absent"
    /\ msg_count = 0
    /\ p_node = 0
    /\ p_connected = FALSE
    /\ p_status = 0
    /\ p_exiting = FALSE
    /\ p_late = FALSE
    /\ p_disconnects = 0
    /\ p_loop_stops = 0

\* no TimeResource constructed
TimeAbsent ==
    /\ handle = 0
    /\ pending = {}
    /\ observers = 0
    /\ notified = 0
    /\ t_last = "absent"

otherThanBridge == <<archiveVars, blockVars, normVars, sessionVars, twinVars,
                     publisherVars, timeVars>>

Init ==
    /\ TwinAbsent
    /\ PublisherAbsent
    /\ TimeAbsent
    /\ BridgeIdle
    /\ ArchiveAbsent
    /\ BlockAbsent
    /\ NormAbsent
    /\ SessionAbsent

\* a render that records a location for a device it published for
render_recording_location ==
    /\ ~request.present
    /\ \E req \in Requests :
        LET r == render(req)
        IN  /\ request' = [present |-> TRUE, uri_ok |-> req.uri_ok, path |-> req.path,
                           body |-> req.body, connected |-> connected]
            /\ topic_base' = r.topic
            /\ calls' = r.calls
            /\ response' = r.response
            /\ locations' = IF r.calls # <<>>
                            THEN [locations EXCEPT ![Mac_uic] = Label_kitchen]
                            ELSE locations
            /\ UNCHANGED connected
            /\ UNCHANGED otherThanBridge

\* aiocoap hands a request to MQTT_Bridge.render, which runs to its return
\* (the coroutine has no await, so no other request runs in between)
Render ==
    /\ ~request.present
    /\ \E req \in Requests :
        LET r == render(req)
        IN  /\ request' = [present |-> TRUE, uri_ok |-> req.uri_ok, path |-> req.path,
                           body |-> req.body, connected |-> connected]
            /\ topic_base' = r.topic
            /\ calls' = r.calls
            /\ response' = r.response
            /\ UNCHANGED <<locations, connected>>
            /\ UNCHANGED otherThanBridge

\* aiocoap sends what render gave it; the request and its locals are dropped
Respond ==
    /\ request.present
    /\ request' = NoRequest
    /\ topic_base' = <<>>
    /\ calls' = <<>>
    /\ response' = NoResponse
    /\ UNCHANGED <<locations, connected>>
    /\ UNCHANGED otherThanBridge

\* the paho network thread loses the broker session
ConnectionLost ==
    /\ connected
    /\ connected' = FALSE
    /\ UNCHANGED <<locations, request, topic_base, calls, response>>
    /\ UNCHANGED otherThanBridge

\* the paho network thread reconnects
Reconnected ==
    /\ ~connected
    /\ connected' = TRUE
    /\ UNCHANGED <<locations, request, topic_base, calls, response>>
    /\ UNCHANGED otherThanBridge

Next == Render \/ Respond \/ ConnectionLost \/ Reconnected

Spec == Init /\ [][Next]_vars

----------------------------------------------------------------------------
(* The archived variant: MQTTBridgeResource, MQTTHandler, CoAPServer *)

\* JSON null, Python None
Null == [t |-> "null", s |-> <<>>, n |-> 0, items |-> <<>>]

\* config.LOCATION_MAPPING and config.DEFAULT_TOPIC: the same literals as in coap_server.py
LOCATION_MAPPING == LocationsTable
CONFIG_DEFAULT_TOPIC == DEFAULT_TOPIC

\* neighbor["neighbor_location"] = LOCATION_MAPPING.get(neighbor["MAC"])
ProcessNeighbor(neighbor) ==
    IF neighbor.t # "obj" THEN Raise("TypeError")
    ELSE IF ~HasKey(neighbor, "MAC") THEN Raise("KeyError")
    ELSE LET mac == GetItem(neighbor, "MAC")
         IN  Ok(SetItem(neighbor, "neighbor_location",
                        IF mac.t = "str" /\ mac.s \in DOMAIN LOCATION_MAPPING
                        THEN Str(LOCATION_MAPPING[mac.s])
                        ELSE Null))

\* for neighbor in payload_data.get("neighbor_rssi", []): ...
ProcessNeighbors(data) ==
    IF ~HasKey(data, "neighbor_rssi") THEN Ok(data)
    ELSE LET v == GetItem(data, "neighbor_rssi")
         IN  CASE v.t = "list" ->
                    IF \E i \in 1..Len(v.items) : ProcessNeighbor(v.items[i]).exc # ""
                    THEN Raise(ProcessNeighbor(v.items[
                            CHOOSE i \in 1..Len(v.items) :
                                /\ ProcessNeighbor(v.items[i]).exc # ""
                                /\ \A j \in 1..(i - 1) : ProcessNeighbor(v.items[j]).exc = ""]).exc)
                    ELSE Ok(SetItem(data, "neighbor_rssi",
                                    List([i \in 1..Len(v.items) |-> ProcessNeighbor(v.items[i]).val])))
               [] v.t = "str" -> IF v.s = <<>> THEN Ok(data) ELSE Raise("TypeError")
               [] OTHER -> Raise("TypeError")

\* MQTTBridgeResource._process_payload: (topic, json.dumps(payload_data))
_process_payload(payload_data) ==
    LET mac == mac_address(payload_data)
    IN  IF mac.exc # "" THEN mac
        ELSE IF mac.val \in DOMAIN LOCATION_MAPPING
        THEN LET located == SetItem(payload_data, "location", Str(LOCATION_MAPPING[mac.val]))
                 enriched == ProcessNeighbors(located)
             IN  IF enriched.exc # "" THEN enriched
                 ELSE Ok([topic |-> CONFIG_DEFAULT_TOPIC \o <<"/">>
                                        \o Format(GetItem(enriched.val, "location")),
                          payload |-> json_dumps(enriched.val)])
        ELSE Ok([topic |-> CONFIG_DEFAULT_TOPIC \o <<"/">> \o mac.val,
                 payload |-> json_dumps(payload_data)])

\* paho publish on MQTTHandler.client
handler_client_publish(topic, payload) ==
    IF \E i \in 1..Len(topic) : topic[i] \in {"+", "#"}
    THEN Raise("ValueError")
    ELSE Ok(IF a_connected THEN MQTT_ERR_SUCCESS ELSE MQTT_ERR_NO_CONN)

\* MQTTHandler.publish without the result-code test
handler_publish_ignoring_rc(topic, payload) ==
    LET result == handler_client_publish(topic, payload)
        call == [topic |-> topic, payload |-> payload, raised |-> result.exc # "",
                 rc |-> IF result.exc = "" THEN result.val ELSE MQTT_ERR_SUCCESS]
    IN  IF result.exc # "" THEN [raised |-> FALSE, value |-> FALSE, client_calls |-> <<call>>]
        ELSE [raised |-> FALSE, value |-> TRUE, client_calls |-> <<call>>]

\* the body of MQTTHandler.publish, run when the coroutine is awaited: the value it
\* returns and the client.publish call it makes
MQTTHandler_publish(topic, payload) ==
    LET result == handler_client_publish(topic, payload)
        call == [topic |-> topic, payload |-> payload, raised |-> result.exc # "",
                 rc |-> IF result.exc = "" THEN result.val ELSE MQTT_ERR_SUCCESS]
    IN  IF result.exc # "" THEN [raised |-> FALSE, value |-> FALSE, client_calls |-> <<call>>]
        ELSE IF result.val = 0 THEN [raised |-> FALSE, value |-> TRUE, client_calls |-> <<call>>]
        ELSE [raised |-> FALSE, value |-> FALSE, client_calls |-> <<call>>]

\* the expression self.mqtt_handler.publish(topic, processed_payload) of render, which
\* is not awaited: an MQTTHandler (async def publish) gives a coroutine object, which
\* is true in an if and whose body never runs; a capability in its place gives its
\* boolean b
handler_publish_expression(topic, payload, b) ==
    IF a_assembly = "MQTTHandler"
    THEN [kind |-> "coroutine", truthy |-> TRUE, client_calls |-> <<>>]
    ELSE [kind |-> "bool", truthy |-> b, client_calls |-> <<>>]

\* an except clause that answers a JSON error as the bridge of coap_server.py does
archive_error_bad_request(exc) ==
    IF exc = "JSONDecodeError"
    THEN Message(BAD_REQUEST, exc)
    ELSE Message(INTERNAL_SERVER_ERROR, exc)

\* the except clause of MQTTBridgeResource.render: payload is str(e)
ArchiveErrorResponse(exc) == Message(INTERNAL_SERVER_ERROR, exc)

\* the if/else on the publish result
PublishResponse(truthy) ==
    IF truthy
    THEN Message(CONTENT, "Published")
    ELSE Message(INTERNAL_SERVER_ERROR, "Failed to publish message")

\* MQTTBridgeResource.render; b is what a boolean publish capability returns
archive_render(req, b) ==
    LET none == [handler_calls |-> <<>>, client_calls |-> <<>>]
    IN  IF ~req.uri_ok
        THEN none @@ [response |-> ArchiveErrorResponse("ValueError")]
        ELSE
        LET payload == decode(req.body)
        IN  IF payload.exc # "" THEN none @@ [response |-> ArchiveErrorResponse(payload.exc)]
            ELSE
            LET payload_data == json_loads(payload.val)
            IN  IF payload_data.exc # "" THEN none @@ [response |-> ArchiveErrorResponse(payload_data.exc)]
                ELSE
                LET processed == _process_payload(payload_data.val)
                IN  IF processed.exc # "" THEN none @@ [response |-> ArchiveErrorResponse(processed.exc)]
                    ELSE
                    LET got == handler_publish_expression(processed.val.topic, processed.val.payload, b)
                    IN  [handler_calls |-> <<[topic |-> processed.val.topic,
                                              payload |-> processed.val.payload,
                                              kind |-> got.kind, truthy |-> got.truthy]>>,
                         client_calls |-> got.client_calls,
                         response |-> PublishResponse(got.truthy)]

\* requests to the archived resource
ArchivePaths == {<<>>, <<"/", "s", "e", "n", "s", "o", "r">>, <<"/", "a">>}
ArchiveRequests ==
    {[uri_ok |-> TRUE, path |-> p, body |-> b] : p \in ArchivePaths, b \in Bodies}
    \cup {[uri_ok |-> FALSE, path |-> <<>>, body |-> b] : b \in Bodies}

\* calls of a caller that awaits MQTTHandler.publish
HandlerTopics == {<<"t", "e", "s", "t", "/", "t", "o", "p", "i", "c">>, <<"t", "/", "#">>}
HandlerPayloads == {[kind |-> "text", doc |-> NonObj("null")],
                    [kind |-> "json", doc |-> Obj(<<>>)]}

otherThanArchive == <<bridgeVars, blockVars, normVars, sessionVars, twinVars,
    publisherVars, timeVars>>

\* CoAPServer() constructs an MQTTHandler; a test constructs MQTTBridgeResource with
\* a publish capability that returns a boolean
ArchiveInit ==
    /\ TwinAbsent
    /\ PublisherAbsent
    /\ TimeAbsent
    /\ BridgeIdle
    /\ BlockAbsent
    /\ NormAbsent
    /\ SessionAbsent
    /\ a_assembly \in {"MQTTHandler", "bool"}
    /\ srv_pc = IF a_assembly = "MQTTHandler" THEN "constructed" ELSE "absent"
    /\ srv_log = <<>>
    /\ a_connected = FALSE
    /\ a_request = NoRequest
    /\ a_handler_calls = <<>>
    /\ a_client_calls = <<>>
    /\ a_response = NoResponse
    /\ h_result = NoResult

\* a start that goes on whatever connect returned
start_ignoring_connect_result ==
    /\ srv_pc = "constructed"
    /\ \E ok \in BOOLEAN :
          /\ a_connected' = ok
          /\ srv_log' = Append(srv_log, IF ok THEN "connect=True" ELSE "connect=False")
          /\ srv_pc' = "connected"
    /\ UNCHANGED <<a_assembly, a_request, a_handler_calls, a_client_calls, a_response, h_result>>
    /\ UNCHANGED otherThanArchive

\* CoAPServer.start up to the first await that returns: mqtt_handler.connect()
StartConnect ==
    /\ srv_pc = "constructed"
    /\ \E ok \in BOOLEAN :
          /\ a_connected' = ok
          /\ srv_log' = Append(srv_log, IF ok THEN "connect=True" ELSE "connect=False")
          /\ srv_pc' = IF ok THEN "connected" ELSE "returned"
    /\ UNCHANGED <<a_assembly, a_request, a_handler_calls, a_client_calls, a_response, h_result>>
    /\ UNCHANGED otherThanArchive

\* await self.mqtt_handler.start(); what it raises goes to the except clause, which
\* awaits mqtt_handler.stop()
StartLoop ==
    /\ srv_pc = "connected"
    /\ \E raises \in BOOLEAN :
          IF raises
          THEN srv_log' = srv_log \o <<"loop_start", "loop_stop">> /\ srv_pc' = "stopped"
          ELSE srv_log' = Append(srv_log, "loop_start") /\ srv_pc' = "loop_started"
    /\ UNCHANGED <<a_assembly, a_connected, a_request, a_handler_calls, a_client_calls,
                   a_response, h_result>>
    /\ UNCHANGED otherThanArchive

\* _setup_resources and await aiocoap.Context.create_server_context(...)
StartContext ==
    /\ srv_pc = "loop_started"
    /\ \E raises \in BOOLEAN :
          IF raises
          THEN srv_log' = srv_log \o <<"create_server_context", "loop_stop">> /\ srv_pc' = "stopped"
          ELSE srv_log' = Append(srv_log, "create_server_context") /\ srv_pc' = "serving"
    /\ UNCHANGED <<a_assembly, a_connected, a_request, a_handler_calls, a_client_calls,
                   a_response, h_result>>
    /\ UNCHANGED otherThanArchive

\* a request reaches MQTTBridgeResource.render, which runs to its return
ArchiveRender ==
    /\ srv_pc = "serving" \/ a_assembly = "bool"
    /\ ~a_request.present
    /\ ~h_result.awaited
    /\ \E req \in ArchiveRequests, b \in (IF a_assembly = "bool" THEN BOOLEAN ELSE {TRUE}) :
          LET r == archive_render(req, b)
          IN  /\ a_request' = [present |-> TRUE, uri_ok |-> req.uri_ok, path |-> req.path,
                               body |-> req.body, connected |-> a_connected]
              /\ a_handler_calls' = r.handler_calls
              /\ a_client_calls' = r.client_calls
              /\ a_response' = r.response
    /\ UNCHANGED <<srv_pc, srv_log, a_assembly, a_connected, h_result>>
    /\ UNCHANGED otherThanArchive

\* the response is sent; the request and its locals are dropped
ArchiveRespond ==
    /\ a_request.present
    /\ a_request' = NoRequest
    /\ a_handler_calls' = <<>>
    /\ a_client_calls' = <<>>
    /\ a_response' = NoResponse
    /\ UNCHANGED <<srv_pc, srv_log, a_assembly, a_connected, h_result>>
    /\ UNCHANGED otherThanArchive

\* a caller awaits MQTTHandler.publish(topic, payload)
AwaitPublish ==
    /\ a_assembly = "MQTTHandler"
    /\ ~a_request.present
    /\ ~h_result.awaited
    /\ \E topic \in HandlerTopics, payload \in HandlerPayloads :
          LET r == MQTTHandler_publish(topic, payload)
          IN  /\ h_result' = [awaited |-> TRUE, raised |-> r.raised, value |-> r.value,
                               topic |-> topic, payload |-> payload]
              /\ a_client_calls' = r.client_calls
    /\ UNCHANGED <<srv_pc, srv_log, a_assembly, a_connected, a_request, a_handler_calls,
                   a_response>>
    /\ UNCHANGED otherThanArchive

\* the caller has used the result
AwaitDone ==
    /\ h_result.awaited
    /\ h_result' = NoResult
    /\ a_client_calls' = <<>>
    /\ UNCHANGED <<srv_pc, srv_log, a_assembly, a_connected, a_request, a_handler_calls,
                   a_response>>
    /\ UNCHANGED otherThanArchive

\* the paho network thread of MQTTHandler.client loses or regains the broker session
ArchiveConnectionChange ==
    /\ srv_pc \in {"loop_started", "serving"}
    /\ a_connected' = ~a_connected
    /\ UNCHANGED <<srv_pc, srv_log, a_assembly, a_request, a_handler_calls, a_client_calls,
                   a_response, h_result>>
    /\ UNCHANGED otherThanArchive

ArchiveNext ==
    \/ StartConnect \/ StartLoop \/ StartContext
    \/ ArchiveRender \/ ArchiveRespond
    \/ AwaitPublish \/ AwaitDone
    \/ ArchiveConnectionChange

SpecArchive == ArchiveInit /\ [][ArchiveNext]_vars

----------------------------------------------------------------------------
(* Two requests to the archived MQTTBridgeResource, side by side *)

\* bodies: no UTF-8, no JSON, a well-formed document, and documents that make
\* _process_payload raise
TwinBodies ==
    {[kind |-> "bytes", doc |-> NonObj("null")], [kind |-> "text", doc |-> NonObj("null")]}
    \cup {[kind |-> "json", doc |-> d] :
            d \in {Obj(<<Field("device", Str(Mac_raum_1_08_raw)),
                         Field("neighbor_rssi", List(<<>>))>>),
                   Obj(<<>>),
                   NonObj("num"),
                   Obj(<<Field("device", Str(Mac_raum_1_08)),
                         Field("neighbor_rssi", List(<<Obj(<<Field("RSSI", Num(-70))>>)>>))>>)}}

TwinRequests ==
    {[present |-> TRUE, uri_ok |-> TRUE, path |-> <<"/", "s", "e", "n", "s", "o", "r">>,
      body |-> b, connected |-> FALSE] : b \in TwinBodies}
    \cup {[present |-> TRUE, uri_ok |-> FALSE, path |-> <<>>, body |-> b, connected |-> FALSE] :
            b \in {x \in TwinBodies : x.kind = "json" /\ x.doc.t = "obj" /\ Len(x.doc.fields) = 2}}

otherThanTwin == <<bridgeVars, archiveVars, blockVars, normVars, sessionVars,
                   publisherVars, timeVars>>

\* the resource as CoAPServer assembles it and serves it, or as a test constructs it
TwinInit ==
    /\ BridgeIdle
    /\ BlockAbsent
    /\ NormAbsent
    /\ SessionAbsent
    /\ PublisherAbsent
    /\ TimeAbsent
    /\ a_assembly \in {"MQTTHandler", "bool"}
    /\ srv_pc = IF a_assembly = "MQTTHandler" THEN "serving" ELSE "absent"
    /\ srv_log = IF a_assembly = "MQTTHandler"
                 THEN <<"connect=True", "loop_start", "create_server_context">>
                 ELSE <<>>
    /\ a_connected = FALSE
    /\ a_request = NoRequest
    /\ a_handler_calls = <<>>
    /\ a_client_calls = <<>>
    /\ a_response = NoResponse
    /\ h_result = NoResult
    /\ twin \in {[NoTwin EXCEPT !.first = r1, !.second = r2] :
                    r1 \in TwinRequests, r2 \in TwinRequests}

\* MQTTBridgeResource.render for each of the two requests
RenderTwin ==
    /\ ~twin.done
    /\ \E b1 \in (IF a_assembly = "bool" THEN BOOLEAN ELSE {TRUE}),
          b2 \in (IF a_assembly = "bool" THEN BOOLEAN ELSE {TRUE}) :
          twin' = [twin EXCEPT !.done = TRUE,
                               !.first_response = archive_render(twin.first, b1).response,
                               !.second_response = archive_render(twin.second, b2).response]
    /\ UNCHANGED otherThanTwin

TwinNext == RenderTwin

SpecTwin == TwinInit /\ [][TwinNext]_vars

----------------------------------------------------------------------------
(* publish_mqtt_message (coap_server/mqtt_client.py) *)

\* the bound of the while loop, and the number of entries of `examples`
MaxRounds == 10
NumExamples == 4

otherThanPublisher == <<bridgeVars, archiveVars, blockVars, normVars, sessionVars,
                        twinVars, timeVars>>

\* publish_mqtt_message is called after connect_mqtt, the broker reached or not
PublisherInit ==
    /\ BridgeIdle
    /\ ArchiveAbsent
    /\ BlockAbsent
    /\ NormAbsent
    /\ SessionAbsent
    /\ TwinAbsent
    /\ TimeAbsent
    /\ p_pc = "while"
    /\ msg_count = 0
    /\ p_node = 0
    /\ p_connected \in BOOLEAN
    /\ p_status = 0
    /\ p_exiting = FALSE
    /\ p_late = FALSE
    /\ p_disconnects = 0
    /\ p_loop_stops = 0

\* while msg_count < 10: msg_count += 1, and the for loop starts over
PublisherWhile ==
    /\ p_pc = "while"
    /\ IF msg_count < MaxRounds
       THEN msg_count' = msg_count + 1 /\ p_node' = 0 /\ p_pc' = "for"
       ELSE p_pc' = "finally" /\ UNCHANGED <<msg_count, p_node>>
    /\ UNCHANGED <<p_connected, p_status, p_exiting, p_late, p_disconnects, p_loop_stops>>
    /\ UNCHANGED otherThanPublisher

\* one pass of the for loop up to the test of status: the next entry is published;
\* with no entry left the loop ends and time.sleep(10) is next
PublisherFor ==
    /\ p_pc = "for"
    /\ IF p_node < NumExamples
       THEN LET status == IF p_connected THEN MQTT_ERR_SUCCESS ELSE MQTT_ERR_NO_CONN
            IN  /\ p_node' = p_node + 1
                /\ p_status' = status
                /\ p_late' = (p_late \/ p_exiting)
                /\ p_pc' = IF status = 0 THEN "for" ELSE "check"
       ELSE p_pc' = "sleep" /\ UNCHANGED <<p_node, p_status, p_late>>
    /\ UNCHANGED <<msg_count, p_connected, p_exiting, p_disconnects, p_loop_stops>>
    /\ UNCHANGED otherThanPublisher

\* if not client.is_connected(): break -- which leaves the for loop
PublisherCheck ==
    /\ p_pc = "check"
    /\ IF ~p_connected
       THEN p_exiting' = TRUE /\ p_pc' = "sleep"
       ELSE p_pc' = "for" /\ UNCHANGED p_exiting
    /\ UNCHANGED <<msg_count, p_node, p_connected, p_status, p_late, p_disconnects,
                   p_loop_stops>>
    /\ UNCHANGED otherThanPublisher

\* time.sleep(10), then back to the test of the while loop
PublisherSleep ==
    /\ p_pc = "sleep"
    /\ p_pc' = "while"
    /\ UNCHANGED <<msg_count, p_node, p_connected, p_status, p_exiting, p_late,
                   p_disconnects, p_loop_stops>>
    /\ UNCHANGED otherThanPublisher

\* finally: client.disconnect(); client.loop_stop()
PublisherFinally ==
    /\ p_pc = "finally"
    /\ p_disconnects' = p_disconnects + 1
    /\ p_loop_stops' = p_loop_stops + 1
    /\ p_connected' = FALSE
    /\ p_pc' = "done"
    /\ UNCHANGED <<msg_count, p_node, p_status, p_exiting, p_late>>
    /\ UNCHANGED otherThanPublisher

\* the paho network thread loses or regains the broker session
PublisherConnectionChange ==
    /\ p_pc \in {"while", "for", "check", "sleep"}
    /\ p_connected' = ~p_connected
    /\ UNCHANGED <<p_pc, msg_count, p_node, p_status, p_exiting, p_late, p_disconnects,
                   p_loop_stops>>
    /\ UNCHANGED otherThanPublisher

PublisherNext ==
    \/ PublisherWhile
    \/ PublisherFor
    \/ PublisherCheck
    \/ PublisherSleep
    \/ PublisherFinally
    \/ PublisherConnectionChange

SpecPublisher == PublisherInit /\ [][PublisherNext]_vars

----------------------------------------------------------------------------
(* TimeResource (coap_server.py) *)

\* timers the event loop can tell apart, the largest observer count reported, and
\* the number of notifications followed
MaxTimers == 3
MaxObservers == 3
MaxNotifications == 6

\* self.handle is None
None == 0
TimerIds == 1..MaxTimers

otherThanTime == <<bridgeVars, archiveVars, blockVars, normVars, sessionVars, twinVars,
                   publisherVars>>

\* TimeResource(): handle is None, nothing is scheduled, no count reported yet
TimeInit ==
    /\ BridgeIdle
    /\ ArchiveAbsent
    /\ BlockAbsent
    /\ NormAbsent
    /\ SessionAbsent
    /\ TwinAbsent
    /\ PublisherAbsent
    /\ handle = None
    /\ pending = {}
    /\ observers = 0
    /\ notified = 0
    /\ t_last = "__init__"

\* an update_observation_count that starts the clock for every positive count
update_observation_count_always_rescheduling ==
    /\ \E count \in 0..MaxObservers :
          /\ observers' = count
          /\ IF count # 0
             THEN \E id \in TimerIds \ pending :
                      handle' = id /\ pending' = pending \cup {id}
             ELSE IF count = 0 /\ handle # None
             THEN handle' = None /\ pending' = pending \ {handle}
             ELSE UNCHANGED <<handle, pending>>
    /\ t_last' = "update_observation_count"
    /\ UNCHANGED notified
    /\ UNCHANGED otherThanTime

\* TimeResource.update_observation_count(count); reschedule() makes a new timer and
\* keeps it in handle, handle.cancel() takes the timer of handle off the loop
update_observation_count ==
    /\ \E count \in 0..MaxObservers :
          /\ observers' = count
          /\ IF count # 0 /\ handle = None
             THEN \E id \in TimerIds \ pending :
                      handle' = id /\ pending' = pending \cup {id}
             ELSE IF count = 0 /\ handle # None
             THEN handle' = None /\ pending' = pending \ {handle}
             ELSE UNCHANGED <<handle, pending>>
    /\ t_last' = "update_observation_count"
    /\ UNCHANGED notified
    /\ UNCHANGED otherThanTime

\* a pending timer fires and the loop calls notify: updated_state(), reschedule()
notify ==
    /\ notified < MaxNotifications
    /\ \E fired \in pending :
          \E id \in TimerIds \ (pending \ {fired}) :
              /\ handle' = id
              /\ pending' = (pending \ {fired}) \cup {id}
    /\ notified' = notified + 1
    /\ t_last' = "notify"
    /\ UNCHANGED observers
    /\ UNCHANGED otherThanTime

TimeNext == update_observation_count \/ notify

SpecTime == TimeInit /\ [][TimeNext]_vars

----------------------------------------------------------------------------
(* BlockResource (coap_server.py): bytes are one-character strings *)

\* the byte b"\x00"
NUL == "NUL"

\* the length set_content pads and cuts to
BlockSize == 1024

\* the default content given to set_content by __init__
DefaultContent == <<"T", "h", "i", "s", " ", "i", "s", " ", "t", "h", "e", " ", "r", "e", "s", "o", "u", "r", "c", "e", "'", "s", " ", "d", "e", "f", "a", "u", "l", "t", " ", "c", "o", "n", "t", "e", "n", "t", ".", " ", "I", "t", " ", "i", "s", " ", "p", "a", "d", "d", "e", "d", " ", "w", "i", "t", "h", " ", "n", "u", "m", "b", "e", "r", "s", " ", "t", "o", " ", "b", "e", " ", "l", "a", "r", "g", "e", " ", "e", "n", "o", "u", "g", "h", " ", "t", "o", " ", "t", "r", "i", "g", "g", "e", "r", " ", "b", "l", "o", "c", "k", "w", "i", "s", "e", " ", "t", "r", "a", "n", "s", "f", "e", "r", ".", "\n">>

\* b * n for a one-byte b: empty when n is not positive
Repeat(b, n) == IF n > 0 THEN [i \in 1..n |-> b] ELSE <<>>

\* s[:n] for n >= 0
Prefix(s, n) == IF Len(s) <= n THEN s ELSE SubSeq(s, 1, n)

\* a set_content that pads and does not cut
set_content_without_slice(new_content) ==
    new_content \o Repeat(NUL, BlockSize - Len(new_content))

\* BlockResource.set_content: the value self.content ends with
set_content(new_content) ==
    LET repeat_count == BlockSize - Len(new_content)
        padded == new_content \o Repeat(NUL, repeat_count)
    IN  Prefix(padded, BlockSize)

\* PUT payloads: short ones, and ones about BlockSize long
MaxShort == 2
MaxOver == 2
PayloadBytes == {"a", "b", NUL}
PayloadLengths == (0..MaxShort) \cup ((BlockSize - MaxOver)..(BlockSize + MaxOver))
New_content == <<"N", "e", "w", " ", "c", "o", "n", "t", "e", "n", "t">>
PutPayloads ==
    {[i \in 1..n |-> IF i = 1 THEN b1 ELSE b2] : b1 \in PayloadBytes, b2 \in PayloadBytes,
                                                  n \in PayloadLengths \ {0}}
    \cup {<<>>, New_content}

otherThanBlock == <<bridgeVars, archiveVars, normVars, sessionVars, twinVars,
    publisherVars, timeVars>>

\* BlockResource(): __init__ calls set_content with the default text
BlockInit ==
    /\ TwinAbsent
    /\ PublisherAbsent
    /\ TimeAbsent
    /\ BridgeIdle
    /\ ArchiveAbsent
    /\ NormAbsent
    /\ SessionAbsent
    /\ content = set_content(DefaultContent)
    /\ block_put = NoBlockPut
    /\ block_response = NoBlockResponse

\* BlockResource.render_get
render_get ==
    /\ block_response' = [op |-> "get", code |-> "unset", payload |-> content]
    /\ UNCHANGED <<content, block_put>>
    /\ UNCHANGED otherThanBlock

\* BlockResource.render_put
render_put ==
    \E payload \in PutPayloads :
        /\ content' = set_content(payload)
        /\ block_put' = [done |-> TRUE, payload |-> payload]
        /\ block_response' = [op |-> "put", code |-> "CHANGED", payload |-> content']
        /\ UNCHANGED otherThanBlock

BlockNext == render_get \/ render_put

SpecBlock == BlockInit /\ [][BlockNext]_vars

----------------------------------------------------------------------------
(* Identifier normalization and lookup, applied to given identifiers *)

\* longest identifier built from IdAlphabet
MaxIdLen == 2
IdAlphabet == {"a", "A", " ", "\t"}

\* identifiers: short strings over the alphabet, the keys of the table, and
\* other spellings of MAC addresses
IdStrings ==
    SeqsUpTo(IdAlphabet, MaxIdLen)
    \cup DOMAIN LocationsTable
    \cup {Mac_raum_1_08_raw, Mac_roboterlabor_raw, Mac_unknown, Mac_unknown_raw,
          Mac_raum_1_08 \o <<"\n">>, <<"\t">> \o Mac_uic}

\* the lookup of lines 173-174:  mac_address in locations, locations[mac_address]
resolve(id) ==
    IF id \in DOMAIN locations
    THEN [present |-> TRUE, label |-> locations[id]]
    ELSE [present |-> FALSE, label |-> <<>>]

\* a request on /sensor whose payload reports the identifier id
SensorRequest(id) ==
    [uri_ok |-> TRUE, path |-> <<"/", "s", "e", "n", "s", "o", "r">>,
     body |-> [kind |-> "json",
               doc |-> Obj(<<Field("device", Str(id)), Field("neighbor_rssi", List(<<>>))>>)]]

\* what the bridge published for a request: the topic and the location it attached
PublishedFor(r) ==
    IF r.calls = <<>>
    THEN [published |-> FALSE, topic |-> <<>>, located |-> FALSE, location |-> <<>>]
    ELSE LET doc == r.calls[1].payload.doc
         IN  [published |-> TRUE, topic |-> r.calls[1].topic,
              located |-> HasKey(doc, "location"),
              location |-> IF HasKey(doc, "location") THEN GetItem(doc, "location").s ELSE <<>>]

otherThanNorm == <<bridgeVars, archiveVars, blockVars, sessionVars, twinVars,
    publisherVars, timeVars>>

NormInit ==
    /\ TwinAbsent
    /\ PublisherAbsent
    /\ TimeAbsent
    /\ BridgeIdle
    /\ ArchiveAbsent
    /\ BlockAbsent
    /\ SessionAbsent
    /\ ids \in IdStrings \X IdStrings
    /\ norm = NoNorm

\* the expression of line 171 applied to both identifiers, once more to the
\* result for the first, and the lookup of lines 173-174 for the first
NormalizeIds ==
    /\ norm.stage = "input"
    /\ norm' = [norm EXCEPT !.stage = "normalized",
                            !.x = Normalize(ids[1]),
                            !.xx = Normalize(Normalize(ids[1])),
                            !.y = Normalize(ids[2]),
                            !.found = resolve(Normalize(ids[1]))]
    /\ UNCHANGED ids
    /\ UNCHANGED otherThanNorm

\* the bridge handles one request for each identifier
PublishBoth ==
    /\ norm.stage = "normalized"
    /\ norm' = [norm EXCEPT !.stage = "published",
                            !.pub_x = PublishedFor(render(SensorRequest(ids[1]))),
                            !.pub_y = PublishedFor(render(SensorRequest(ids[2])))]
    /\ UNCHANGED ids
    /\ UNCHANGED otherThanNorm

NormNext == NormalizeIds \/ PublishBoth

SpecNormalize == NormInit /\ [][NormNext]_vars

----------------------------------------------------------------------------
(* The bridge handling request after request *)

SessionPaths == {<<>>, <<"/", "s", "e", "n", "s", "o", "r">>, <<"/", "#">>}

\* bodies: no UTF-8, no JSON, and documents of a known and an unknown device with no neighbor_rssi,
\* an empty one, and one with a known neighbor
SessionDocuments ==
    {Obj(<<Field("device", Str(id))>> \o rest) :
        id \in {Mac_raum_1_08_raw, Mac_unknown_raw},
        rest \in {<<>>,
                  <<Field("neighbor_rssi", List(<<>>))>>,
                  <<Field("neighbor_rssi", List(<<Obj(<<Field("MAC", Str(Mac_uic))>>)>>))>>}}
SessionBodies ==
    {[kind |-> "bytes", doc |-> NonObj("null")], [kind |-> "text", doc |-> NonObj("null")]}
    \cup {[kind |-> "json", doc |-> d] : d \in SessionDocuments}

SessionRequests ==
    {[uri_ok |-> TRUE, path |-> p, body |-> b] : p \in SessionPaths, b \in SessionBodies}
    \cup {[uri_ok |-> FALSE, path |-> <<>>, body |-> b] : b \in SessionBodies}

otherThanSession == <<archiveVars, blockVars, normVars, twinVars,
    publisherVars, timeVars>>

\* a fresh process, the broker reachable or not; session.alone is what render gives
\* for each request in this state
SessionInit ==
    /\ TwinAbsent
    /\ PublisherAbsent
    /\ TimeAbsent
    /\ locations = LocationsTable
    /\ connected \in BOOLEAN
    /\ request = NoRequest
    /\ topic_base = <<>>
    /\ calls = <<>>
    /\ response = NoResponse
    /\ ArchiveAbsent
    /\ BlockAbsent
    /\ NormAbsent
    /\ session = [outcome |-> connected,
                  alone |-> [req \in SessionRequests |-> render(req)],
                  earlier |-> FALSE]

\* a bridge that falls back to the topic of the request before
session_render_reusing_topic ==
    \E req \in SessionRequests :
        LET r == render(IF ~req.uri_ok /\ topic_base # <<>>
                        THEN [req EXCEPT !.uri_ok = TRUE, !.path = <<"/">> \o topic_base]
                        ELSE req)
        IN  /\ request' = [present |-> TRUE, uri_ok |-> req.uri_ok, path |-> req.path,
                           body |-> req.body, connected |-> connected]
            /\ topic_base' = r.topic
            /\ calls' = r.calls
            /\ response' = r.response
            /\ session' = [session EXCEPT !.earlier = request.present]
            /\ UNCHANGED <<locations, connected>>
            /\ UNCHANGED otherThanSession

\* MQTT_Bridge.render for the next request, whatever was handled before
SessionRender ==
    \E req \in SessionRequests :
        LET r == render(req)
        IN  /\ request' = [present |-> TRUE, uri_ok |-> req.uri_ok, path |-> req.path,
                           body |-> req.body, connected |-> connected]
            /\ topic_base' = r.topic
            /\ calls' = r.calls
            /\ response' = r.response
            /\ session' = [session EXCEPT !.earlier = request.present]
            /\ UNCHANGED <<locations, connected>>
            /\ UNCHANGED otherThanSession

SessionNext == SessionRender \/ ConnectionLost \/ Reconnected

SpecSession == SessionInit /\ [][SessionNext]_vars

----------------------------------------------------------------------------
(* Vocabulary of the properties *)

Handled == request.present
Doc == request.body.doc
Published == Handled /\ Len(calls) > 0

IsResponse == response.kind = "message"
IsSuccess == IsResponse /\ CodeClass(response.code) = 2
IsClientError == IsResponse /\ CodeClass(response.code) = 4
IsServerError == IsResponse /\ CodeClass(response.code) = 5

StartsWith(s, p) == Len(s) >= Len(p) /\ SubSeq(s, 1, Len(p)) = p
HasWildcard(s) == \E i \in 1..Len(s) : s[i] \in {"+", "#"}

\* the body is JSON text for an object whose first field is a string
HasIdentifier ==
    /\ request.body.kind = "json"
    /\ Doc.t = "obj"
    /\ Len(Doc.fields) > 0
    /\ Doc.fields[1].v.t = "str"

\* the identifier the payload reports, normalized
Identifier == Normalize(Doc.fields[1].v.s)

\* neighbor_rssi, where present, is a list of objects that each have a MAC
NeighborsWellFormed ==
    HasKey(Doc, "neighbor_rssi") =>
        /\ GetItem(Doc, "neighbor_rssi").t = "list"
        /\ \A i \in 1..Len(GetItem(Doc, "neighbor_rssi").items) :
              LET e == GetItem(Doc, "neighbor_rssi").items[i]
              IN  e.t = "obj" /\ HasKey(e, "MAC")

\* neighbor_rssi as received and as published
SentNeighbors == GetItem(Doc, "neighbor_rssi").items
PublishedNeighbors == GetItem(calls[1].payload.doc, "neighbor_rssi").items
PublishedWithNeighbors ==
    /\ Published
    /\ GetItem(Doc, "neighbor_rssi").t = "list"
    /\ Len(PublishedNeighbors) = Len(SentNeighbors)

\* a neighbor entry whose MAC is a directory key as sent, or once normalized
HasMac(e) == e.t = "obj" /\ HasKey(e, "MAC") /\ GetItem(e, "MAC").t = "str"
KnownNeighbor(e) == HasMac(e) /\ GetItem(e, "MAC").s \in DOMAIN LocationsTable
KnownAfterNormalizing(e) == HasMac(e) /\ Normalize(GetItem(e, "MAC").s) \in DOMAIN LocationsTable

\* the topic base the request path stands for
PathBase ==
    CASE ~request.uri_ok -> DEFAULT_TOPIC
      [] request.path \in {<<>>, <<"/">>, <<"/", "/">>, <<"/", "(", ")">>, <<"(", ")">>,
                           <<"/", "#">>, <<"#">>, <<"/", "$">>, <<"$">>} -> DEFAULT_TOPIC
      [] request.path[1] = "/" -> Tail(request.path)
      [] OTHER -> request.path

----------------------------------------------------------------------------
(* Properties *)

\* C1: when client.publish returns a non-zero result code, the response to the
\* request is of server-error class (5.xx), never a success.
C1_FailedPublishIsServerError ==
    (Published /\ ~calls[1].raised /\ calls[1].rc # MQTT_ERR_SUCCESS) => IsServerError

\* C2: render returns a response message for every request; no failure inside the
\* handler reaches the caller as an exception.
C2_AlwaysAResponse ==
    Handled => IsResponse

\* C3: a JSON object with a string identifier first, with or without neighbor_rssi,
\* whose publish succeeds (session up, topic publishable) is answered 2.05 Content
\* and published exactly once.
C3_WellFormedIsPublishedOnce ==
    (/\ Handled
     /\ HasIdentifier
     /\ NeighborsWellFormed
     /\ request.connected
     /\ ~HasWildcard(PathBase)) =>
        /\ IsResponse /\ response.code = CONTENT
        /\ Len(calls) = 1
        /\ ~calls[1].raised /\ calls[1].rc = MQTT_ERR_SUCCESS

\* C4: the publish topic is topic-base "/" suffix, the suffix being the directory
\* label when the normalized identifier resolves and the normalized identifier
\* itself when it does not, whatever other fields the payload carries.
C4_TopicIsBaseAndSuffix ==
    Published =>
        calls[1].topic = PathBase \o <<"/">> \o
            (IF Identifier \in DOMAIN LocationsTable
             THEN LocationsTable[Identifier]
             ELSE Identifier)

\* C5: a body that is UTF-8 text but not JSON is answered 4.00 Bad Request and
\* nothing is published.
C5_NotJsonIsBadRequest ==
    (Handled /\ request.body.kind = "text") =>
        /\ IsResponse /\ response.code = BAD_REQUEST
        /\ calls = <<>>

C5_Witness ==
    Handled /\ request.body.kind = "text" /\ IsClientError /\ request.uri_ok

\* C6: a body that is not valid UTF-8 is answered with a client error (4.xx) and
\* nothing is published.
C6_NotUtf8IsClientError ==
    (Handled /\ request.body.kind = "bytes") => (IsClientError /\ calls = <<>>)

\* C7: _extract_topic never fails: an empty or degenerate path ("/", "()", "#", "$"
\* after the leading slash is removed) gives "sensor/default", any other path gives
\* the path without its leading slash, and an unreadable URI gives "sensor/default"
\* with the request processed on (a decodable body is answered, and a publish goes
\* under the default base).
C7_ExtractTopic ==
    Handled =>
        /\ topic_base = PathBase
        /\ (~request.uri_ok /\ request.body.kind # "bytes") =>
              /\ IsResponse
              /\ (HasIdentifier /\ NeighborsWellFormed /\ HasKey(Doc, "neighbor_rssi")) =>
                    (Len(calls) = 1 /\ StartsWith(calls[1].topic, DEFAULT_TOPIC \o <<"/">>))

C7_Witness ==
    /\ Handled /\ ~request.uri_ok
    /\ topic_base = DEFAULT_TOPIC
    /\ Len(calls) = 1 /\ IsSuccess

\* C8: every neighbor_rssi entry whose MAC is a directory key is published with
\* neighbor_location equal to the directory label, whether or not the reporting
\* device resolves; an entry whose MAC is no directory key is published as it came,
\* with no label attached.
C8_NeighborsLabelled ==
    PublishedWithNeighbors =>
        \A i \in 1..Len(SentNeighbors) :
            IF KnownNeighbor(SentNeighbors[i])
            THEN /\ HasKey(PublishedNeighbors[i], "neighbor_location")
                 /\ GetItem(PublishedNeighbors[i], "neighbor_location")
                        = Str(LocationsTable[GetItem(SentNeighbors[i], "MAC").s])
                 /\ GetItem(PublishedNeighbors[i], "MAC") = GetItem(SentNeighbors[i], "MAC")
            ELSE PublishedNeighbors[i] = SentNeighbors[i]

C8_Witness ==
    /\ PublishedWithNeighbors
    /\ Identifier \notin DOMAIN LocationsTable
    /\ Len(SentNeighbors) = 2
    /\ GetItem(SentNeighbors[1], "MAC") = Str(Mac_roboterlabor)
    /\ GetItem(PublishedNeighbors[1], "neighbor_location") = Str(Label_roboterlabor)
    /\ GetItem(SentNeighbors[2], "MAC") = Str(Mac_unknown)
    /\ ~HasKey(PublishedNeighbors[2], "neighbor_location")

\* C9: a neighbor MAC is normalized (lower-cased, spaces removed) before the lookup,
\* so a MAC that differs from a directory key only in case or spaces is published
\* with that key's label as neighbor_location.
C9_NeighborMacNormalized ==
    PublishedWithNeighbors =>
        \A i \in 1..Len(SentNeighbors) :
            KnownAfterNormalizing(SentNeighbors[i]) =>
                /\ HasKey(PublishedNeighbors[i], "neighbor_location")
                /\ GetItem(PublishedNeighbors[i], "neighbor_location")
                       = Str(LocationsTable[Normalize(GetItem(SentNeighbors[i], "MAC").s)])

\* C10: a request whose body parses as JSON causes exactly one publish attempt.
C10_OnePublishPerParsedRequest ==
    (Handled /\ request.body.kind = "json") => Len(calls) = 1

----------------------------------------------------------------------------
(* Properties of the archived variant *)

ArchiveHandled == a_request.present
ArchiveDoc == a_request.body.doc

\* the body is JSON text for an object with a string first; the neighbor_rssi it
\* carries, if any, is a list of objects that each have a MAC
ArchiveWellFormed ==
    /\ a_request.body.kind = "json"
    /\ ArchiveDoc.t = "obj"
    /\ Len(ArchiveDoc.fields) > 0
    /\ ArchiveDoc.fields[1].v.t = "str"
    /\ HasKey(ArchiveDoc, "neighbor_rssi") =>
          /\ GetItem(ArchiveDoc, "neighbor_rssi").t = "list"
          /\ \A i \in 1..Len(GetItem(ArchiveDoc, "neighbor_rssi").items) :
                LET e == GetItem(ArchiveDoc, "neighbor_rssi").items[i]
                IN  e.t = "obj" /\ HasKey(e, "MAC")

\* the response follows the boolean that the one publish call returned
AnswerFollowsPublish ==
    /\ Len(a_handler_calls) = 1
    /\ a_response.kind = "message"
    /\ (a_response.code = CONTENT) <=> a_handler_calls[1].truthy
    /\ (a_response.code = INTERNAL_SERVER_ERROR
            /\ a_response.payload = "Failed to publish message") <=> ~a_handler_calls[1].truthy

\* C11: MQTTBridgeResource.render answers a body that is not valid JSON with 5.00
\* Internal Server Error and makes no publish call.
C11_InvalidJsonIsInternalError ==
    (ArchiveHandled /\ a_request.body.kind # "json") =>
        /\ a_response.kind = "message" /\ a_response.code = INTERNAL_SERVER_ERROR
        /\ a_handler_calls = <<>> /\ a_client_calls = <<>>

C11_Witness ==
    /\ ArchiveHandled /\ a_request.uri_ok /\ a_request.body.kind = "text"
    /\ a_response.code = INTERNAL_SERVER_ERROR /\ a_response.payload = "JSONDecodeError"

\* C12 as stated: with a publish capability that returns a boolean, every well-formed
\* payload is published exactly once, answered 2.05 iff publish returned true and
\* 5.00 "Failed to publish message" iff it returned false.
C12_PublishOnceAndAnswer ==
    (ArchiveHandled /\ a_assembly = "bool" /\ ArchiveWellFormed) => AnswerFollowsPublish

\* For a request whose URI urlparse accepts, the answer does follow the one publish call.
AnswerFollowsPublishForReadableUri ==
    (ArchiveHandled /\ a_assembly = "bool" /\ ArchiveWellFormed /\ a_request.uri_ok) =>
        AnswerFollowsPublish

ReadableUriPublishRefused ==
    /\ ArchiveHandled /\ a_assembly = "bool" /\ ArchiveWellFormed /\ a_request.uri_ok
    /\ Len(a_handler_calls) = 1 /\ ~a_handler_calls[1].truthy
    /\ a_response.payload = "Failed to publish message"

\* C13: in the server CoAPServer assembles, a request is answered 2.05 only if the
\* broker client's publish was invoked for it and returned result code 0; a broker
\* publish that fails or raises is answered 5.00.
C13_ContentOnlyAfterBrokerPublish ==
    (ArchiveHandled /\ a_assembly = "MQTTHandler") =>
        /\ (a_response.code = CONTENT) =>
              /\ Len(a_client_calls) = 1
              /\ ~a_client_calls[1].raised /\ a_client_calls[1].rc = MQTT_ERR_SUCCESS
        /\ (Len(a_handler_calls) = 1 /\ ~a_request.connected) =>
              a_response.code = INTERNAL_SERVER_ERROR

\* C14: MQTTHandler.publish(topic, payload) passes that topic and payload to the
\* broker client once, returns True iff the result code is 0, False when it is not
\* or the client raises, and never raises.
C14_HandlerPublish ==
    h_result.awaited =>
        /\ ~h_result.raised
        /\ Len(a_client_calls) = 1
        /\ a_client_calls[1].topic = h_result.topic
        /\ a_client_calls[1].payload = h_result.payload
        /\ h_result.value <=> (~a_client_calls[1].raised /\ a_client_calls[1].rc = 0)

C14_Witness ==
    /\ h_result.awaited /\ ~h_result.value
    /\ Len(a_client_calls) = 1 /\ ~a_client_calls[1].raised
    /\ a_client_calls[1].rc = MQTT_ERR_NO_CONN

\* C15: CoAPServer.start connects, then starts the MQTT loop, then creates the CoAP
\* server context, in that order; after connect returned False neither the loop nor
\* the context is started; when a later step raises the MQTT loop is stopped.
C15_StartOrder ==
    /\ srv_log \in {<<>>, <<"connect=False">>, <<"connect=True">>,
                    <<"connect=True", "loop_start">>,
                    <<"connect=True", "loop_start", "loop_stop">>,
                    <<"connect=True", "loop_start", "create_server_context">>,
                    <<"connect=True", "loop_start", "create_server_context", "loop_stop">>}
    /\ srv_pc = "returned" <=> srv_log = <<"connect=False">>
    /\ srv_pc = "stopped" <=> (srv_log # <<>> /\ srv_log[Len(srv_log)] = "loop_stop")
    /\ srv_pc = "serving" => srv_log = <<"connect=True", "loop_start", "create_server_context">>

C15_Witness ==
    /\ srv_pc = "stopped"
    /\ srv_log = <<"connect=True", "loop_start", "create_server_context", "loop_stop">>

----------------------------------------------------------------------------
(* Properties of BlockResource *)

\* C16: the content of BlockResource is always exactly 1024 bytes; after a PUT with
\* payload p it starts with the first min(len(p), 1024) bytes of p and is zero
\* beyond them, the PUT is answered 2.04 Changed with that content, and a GET
\* is answered with that content.
C16_BlockContent ==
    /\ Len(content) = BlockSize
    /\ block_put.done =>
          \A i \in 1..BlockSize :
              content[i] = IF i <= Len(block_put.payload) THEN block_put.payload[i] ELSE NUL
    /\ block_response.op = "put" =>
          block_response.code = "CHANGED" /\ block_response.payload = content
    /\ block_response.op = "get" => block_response.payload = content

C16_Witness ==
    /\ block_response.op = "get"
    /\ block_put.done /\ Len(block_put.payload) > BlockSize
    /\ block_response.payload = Prefix(block_put.payload, BlockSize)

----------------------------------------------------------------------------
(* Properties of normalization and of the locations table *)

\* C17: normalization is idempotent, every key of the locations table is a fixed
\* point of it, the lookup of a normalized table key yields its label, and the
\* lookup of an identifier whose normalized form is no key yields nothing.
C17_NormalizeAndLookup ==
    norm.stage # "input" =>
        /\ norm.xx = norm.x
        /\ ids[1] \in DOMAIN LocationsTable =>
              /\ norm.x = ids[1]
              /\ norm.found.present /\ norm.found.label = LocationsTable[ids[1]]
        /\ norm.x \notin DOMAIN LocationsTable => ~norm.found.present

C17_Witness ==
    /\ norm.stage # "input"
    /\ ids[1] = Mac_besprechungsraum
    /\ norm.found.present /\ norm.found.label = Label_besprechungsraum

\* C18: no step of the bridge, on any path through render, changes the locations table.
C18_LocationsReadOnly == [][locations' = locations]_vars

C18_Witness ==
    /\ Published
    /\ HasKey(calls[1].payload.doc, "location")
    /\ locations = LocationsTable

SameLetter(a, b) ==
    \/ a = b
    \/ \E i \in 1..Len(UpperCase) : {a, b} = {UpperCase[i], LowerCase[i]}

\* x and y differ only in letter case and in characters of ws
RECURSIVE DifferOnlyIn(_, _, _)
DifferOnlyIn(ws, x, y) ==
    IF x # <<>> /\ Head(x) \in ws THEN DifferOnlyIn(ws, Tail(x), y)
    ELSE IF y # <<>> /\ Head(y) \in ws THEN DifferOnlyIn(ws, x, Tail(y))
    ELSE IF x = <<>> \/ y = <<>> THEN x = <<>> /\ y = <<>>
    ELSE SameLetter(Head(x), Head(y)) /\ DifferOnlyIn(ws, Tail(x), Tail(y))

\* both identifiers normalize to one key, are given the same location or none, and
\* are published to the same topic
TreatedAlike ==
    /\ norm.x = norm.y
    /\ norm.pub_x.published /\ norm.pub_y.published
    /\ norm.pub_x.topic = norm.pub_y.topic
    /\ norm.pub_x.located = norm.pub_y.located
    /\ norm.pub_x.location = norm.pub_y.location

----------------------------------------------------------------------------
(* Further properties of MQTT_Bridge *)

\* C21: a body that is valid JSON but no usable sensor object (a value that is no
\* object, an empty object, an object whose first value is no string) is answered
\* 5.00 Internal Server Error and nothing is published.
C21_UnusableObjectIsInternalError ==
    (Handled /\ request.body.kind = "json" /\ ~HasIdentifier) =>
        /\ IsResponse /\ response.code = INTERNAL_SERVER_ERROR
        /\ calls = <<>>

C21_Witness ==
    /\ Handled /\ request.body.kind = "json"
    /\ Doc.t = "obj" /\ Len(Doc.fields) > 1 /\ Doc.fields[1].v.t = "num"
    /\ NeighborsWellFormed /\ HasKey(Doc, "neighbor_rssi")
    /\ response.code = INTERNAL_SERVER_ERROR /\ calls = <<>>

\* C22: every request goes through topic-base extraction, payload parse, enrichment,
\* topic finalization, publish and response in that order: it ends with a response;
\* a publish is made only with the enriched document and the finalized topic, so
\* only after those steps have completed; a failed parse or enrichment is followed
\* by no publish; and there is at most one publish call.
C22_StepsInOrder ==
    Handled =>
        /\ IsResponse
        /\ Len(calls) <= 1
        /\ calls # <<>> =>
              /\ topic_base = PathBase
              /\ request.body.kind = "json"
              /\ _enrich_data_with_locations(Doc).exc = ""
              /\ calls[1].payload = json_dumps(_enrich_data_with_locations(Doc).val)
              /\ calls[1].topic =
                    _build_mqtt_topic(topic_base, _enrich_data_with_locations(Doc).val).val
        /\ (request.body.kind # "json" \/ _enrich_data_with_locations(Doc).exc # "") =>
              calls = <<>>

----------------------------------------------------------------------------
(* Further properties of the archived variant *)

\* C23: any two requests to MQTTBridgeResource.render that end in a server-error
\* response are given the same response, status code and body, whatever the cause.
C23_ServerErrorsAlike ==
    (/\ twin.done
     /\ twin.first_response.code = INTERNAL_SERVER_ERROR
     /\ twin.second_response.code = INTERNAL_SERVER_ERROR) =>
        twin.first_response = twin.second_response

\* the topic base the path of the archived request stands for
ArchivePathBase ==
    CASE ~a_request.uri_ok -> CONFIG_DEFAULT_TOPIC
      [] a_request.path \in {<<>>, <<"/">>, <<"/", "/">>, <<"/", "(", ")">>, <<"(", ")">>,
                             <<"/", "#">>, <<"#">>, <<"/", "$">>, <<"$">>} -> CONFIG_DEFAULT_TOPIC
      [] a_request.path[1] = "/" -> Tail(a_request.path)
      [] OTHER -> a_request.path

ArchivePublished == ArchiveHandled /\ Len(a_handler_calls) = 1
ArchiveIdentifier == Normalize(ArchiveDoc.fields[1].v.s)

\* C24: the topic MQTTBridgeResource.render passes to publish is the topic base of
\* the request path (the default base only for an empty or degenerate path), "/",
\* and the suffix: the label when the identifier resolves, else the normalized
\* identifier; a request to /sensor for a resolving device goes to sensor/<label>.
C24_ArchiveTopicIsBaseAndSuffix ==
    ArchivePublished =>
        a_handler_calls[1].topic = ArchivePathBase \o <<"/">> \o
            (IF ArchiveIdentifier \in DOMAIN LOCATION_MAPPING
             THEN LOCATION_MAPPING[ArchiveIdentifier]
             ELSE ArchiveIdentifier)

ArchiveSentNeighbors ==
    IF HasKey(ArchiveDoc, "neighbor_rssi") /\ GetItem(ArchiveDoc, "neighbor_rssi").t = "list"
    THEN GetItem(ArchiveDoc, "neighbor_rssi").items
    ELSE <<>>
ArchivePublishedNeighbors ==
    LET doc == a_handler_calls[1].payload.doc
    IN  IF HasKey(doc, "neighbor_rssi") /\ GetItem(doc, "neighbor_rssi").t = "list"
        THEN GetItem(doc, "neighbor_rssi").items
        ELSE <<>>

\* C25: in every payload _process_payload hands on, each neighbor_rssi entry carries
\* a neighbor_location key, holding the label of its MAC or the empty result of the
\* lookup, whether or not the reporting device's identifier resolves.
C25_ArchiveNeighborsAlwaysLabelled ==
    (ArchivePublished /\ ArchiveWellFormed) =>
        /\ Len(ArchivePublishedNeighbors) = Len(ArchiveSentNeighbors)
        /\ \A i \in 1..Len(ArchivePublishedNeighbors) :
              /\ HasKey(ArchivePublishedNeighbors[i], "neighbor_location")
              /\ GetItem(ArchivePublishedNeighbors[i], "neighbor_location") =
                    (IF GetItem(ArchiveSentNeighbors[i], "MAC").s \in DOMAIN LOCATION_MAPPING
                     THEN Str(LOCATION_MAPPING[GetItem(ArchiveSentNeighbors[i], "MAC").s])
                     ELSE Null)

----------------------------------------------------------------------------
(* Properties of publish_mqtt_message *)

\* C26: once a publish has returned a non-zero status with the client not connected,
\* publish_mqtt_message attempts no further publish, in that round or a later one;
\* it runs at most 10 rounds and calls disconnect and loop_stop exactly once.
C26_PublisherStopsAfterFailure ==
    /\ ~p_late
    /\ msg_count <= MaxRounds
    /\ p_disconnects <= 1 /\ p_loop_stops <= 1
    /\ p_pc = "done" => (p_disconnects = 1 /\ p_loop_stops = 1)

----------------------------------------------------------------------------
(* Frame of the enrichment in MQTT_Bridge *)

\* pub has the fields of orig in their order, each with its value unless its key is
\* in free, and at most one more field, the last, with the key added
KeepsFields(orig, pub, added, free) ==
    /\ Len(pub.fields) \in {Len(orig.fields), Len(orig.fields) + 1}
    /\ Len(pub.fields) = Len(orig.fields) + 1 =>
          (pub.fields[Len(pub.fields)].k = added /\ ~HasKey(orig, added))
    /\ \A i \in 1..Len(orig.fields) :
          /\ pub.fields[i].k = orig.fields[i].k
          /\ orig.fields[i].k \notin free => pub.fields[i].v = orig.fields[i].v

\* the same for the object and for each neighbor entry; a neighbor_rssi that is no
\* list is passed on as it is
EnrichmentKeeps(free_top, free_entry) ==
    /\ KeepsFields(Doc, calls[1].payload.doc, "location", {"neighbor_rssi"} \cup free_top)
    /\ GetItem(calls[1].payload.doc, "neighbor_rssi").t = GetItem(Doc, "neighbor_rssi").t
    /\ GetItem(Doc, "neighbor_rssi").t # "list" =>
          GetItem(calls[1].payload.doc, "neighbor_rssi") = GetItem(Doc, "neighbor_rssi")
    /\ Len(PublishedNeighbors) = Len(SentNeighbors)
    /\ \A i \in 1..Len(SentNeighbors) :
          KeepsFields(SentNeighbors[i], PublishedNeighbors[i], "neighbor_location", free_entry)

\* C27 as stated: the published payload has every field of the request object and of
\* every neighbor entry with its original value and order; the only differences
\* are an added top-level location field and added neighbor_location fields.
C27_EnrichmentOnlyAdds ==
    Published => EnrichmentKeeps({}, {})

\* C27 amended: the published payload has every field of the request object and of
\* every neighbor entry in its original order, and with its original value except
\* for a location field and neighbor_location fields the request already carried,
\* which are set to the directory label where the MAC resolves; the only other
\* differences are an added top-level location field and added neighbor_location
\* fields.
C27_EnrichmentOnlySetsLocations ==
    Published => EnrichmentKeeps({"location"}, {"neighbor_location"})

C27_Witness ==
    /\ Published
    /\ HasKey(Doc, "location") /\ GetItem(Doc, "location") = Str(Label_kitchen)
    /\ GetItem(calls[1].payload.doc, "location") = Str(Label_raum_1_08)
    /\ Len(SentNeighbors) = 2
    /\ HasKey(SentNeighbors[1], "neighbor_location")
    /\ GetItem(PublishedNeighbors[1], "neighbor_location") = Str(Label_uic)
    /\ ~HasKey(SentNeighbors[2], "neighbor_location")
    /\ HasKey(PublishedNeighbors[2], "neighbor_location")

----------------------------------------------------------------------------
(* Properties of TimeResource *)

\* C28: after any sequence of update_observation_count calls and timer firings at
\* most one notification timer is pending; one is pending, and is the one in handle,
\* whenever the count last reported is positive; none is pending and handle is None
\* whenever the count last reported is 0.
C28_OneTimerWhileObserved ==
    /\ Cardinality(pending) <= 1
    /\ observers > 0 => (handle # None /\ pending = {handle})
    /\ observers = 0 => (handle = None /\ pending = {})

C28_Witness ==
    /\ t_last = "notify" /\ notified >= 2
    /\ observers > 0
    /\ pending = {handle}

====
